---------------------------- MODULE Spec2Model ----------------------------
(***************************************************************************)
(* Model of the detection hook useObjectDetection (hooks/useObjectDetection *)
(* .ts, kept here as src/unnamed/part_007): model loading, the gate of      *)
(* detectObjects, the post-processing pipeline (class filter, NMS, temporal *)
(* smoothing, scoring), the bounded event log and clearDetections.          *)
(*                                                                          *)
(* JavaScript numbers are modelled as exact fractions <<n, d>> with d > 0,  *)
(* extended with the non-finite values the code can produce by dividing by  *)
(* zero: <<1, 0>> (+Infinity), <<-1, 0>> (-Infinity) and <<0, 0>> (NaN).    *)
(***************************************************************************)
EXTENDS Integers, Sequences, FiniteSets, TLC

(***************************************************************************)
(* Numbers                                                                 *)
(***************************************************************************)
RECURSIVE GCD(_, _)
GCD(a, b) == IF b = 0 THEN a ELSE GCD(b, a % b)

AbsInt(a) == IF a < 0 THEN -a ELSE a

SignInt(a) == IF a < 0 THEN -1 ELSE IF a > 0 THEN 1 ELSE 0

\* the fraction n/d (d # 0) in lowest terms with a positive denominator
Frac(n, d) ==
  IF d = 1 THEN <<n, 1>>
  ELSE LET s == IF d < 0 THEN -1 ELSE 1
           g == GCD(AbsInt(n), AbsInt(d))
       IN  <<(s * n) \div g, (s * d) \div g>>

Num(i) == <<i, 1>>

NaN == <<0, 0>>

IsNaN(a) == a[1] = 0 /\ a[2] = 0

IsFinite(a) == a[2] # 0

NumSign(a) == SignInt(a[1])

\* a + b
NumAdd(a, b) ==
  IF a[2] = 1 /\ b[2] = 1 THEN <<a[1] + b[1], 1>>
  ELSE IF IsNaN(a) \/ IsNaN(b) THEN NaN
  ELSE IF ~IsFinite(a) /\ ~IsFinite(b) THEN (IF a = b THEN a ELSE NaN)
  ELSE IF ~IsFinite(a) THEN a
  ELSE IF ~IsFinite(b) THEN b
  ELSE Frac(a[1] * b[2] + b[1] * a[2], a[2] * b[2])

NumNeg(a) == <<-a[1], a[2]>>

\* a - b
NumSub(a, b) == NumAdd(a, NumNeg(b))

\* a * b
NumMul(a, b) ==
  IF a[2] = 1 /\ b[2] = 1 THEN <<a[1] * b[1], 1>>
  ELSE IF IsNaN(a) \/ IsNaN(b) THEN NaN
  ELSE IF ~IsFinite(a) \/ ~IsFinite(b)
       THEN (IF NumSign(a) * NumSign(b) = 0 THEN NaN
             ELSE <<NumSign(a) * NumSign(b), 0>>)
  ELSE Frac(a[1] * b[1], a[2] * b[2])

\* a / b, with JavaScript's results for a zero or non-finite operand
NumDiv(a, b) ==
  IF IsNaN(a) \/ IsNaN(b) THEN NaN
  ELSE IF ~IsFinite(a)
       THEN (IF ~IsFinite(b) THEN NaN
             ELSE <<NumSign(a) * (IF NumSign(b) < 0 THEN -1 ELSE 1), 0>>)
  ELSE IF ~IsFinite(b) THEN Num(0)
  ELSE IF b[1] = 0
       THEN (IF a[1] = 0 THEN NaN ELSE <<NumSign(a), 0>>)
  ELSE Frac(a[1] * b[2], a[2] * b[1])

\* a < b (false when either is NaN)
NumLt(a, b) ==
  IF a[2] = 1 /\ b[2] = 1 THEN a[1] < b[1]
  ELSE IF IsNaN(a) \/ IsNaN(b) THEN FALSE
  ELSE IF ~IsFinite(a) /\ ~IsFinite(b) THEN a[1] < b[1]
  ELSE IF ~IsFinite(a) THEN a[1] < 0
  ELSE IF ~IsFinite(b) THEN b[1] > 0
  ELSE a[1] * b[2] < b[1] * a[2]

NumGt(a, b) == NumLt(b, a)

\* a <= b (false when either is NaN)
NumLe(a, b) == ~IsNaN(a) /\ ~IsNaN(b) /\ ~NumLt(b, a)

NumGe(a, b) == NumLe(b, a)

\* Math.min(a, b)
NumMin(a, b) ==
  IF IsNaN(a) \/ IsNaN(b) THEN NaN ELSE IF NumLt(b, a) THEN b ELSE a

\* Math.max(a, b)
NumMax(a, b) ==
  IF IsNaN(a) \/ IsNaN(b) THEN NaN ELSE IF NumLt(a, b) THEN b ELSE a

\* Math.abs(a)
NumAbs(a) == <<AbsInt(a[1]), a[2]>>

\* Math.round(a): the nearest integer, halves rounded up; non-finite
\* values are returned as they are
NumRound(a) ==
  IF ~IsFinite(a) THEN a ELSE Num((2 * a[1] + a[2]) \div (2 * a[2]))

\* the sum of a sequence of numbers (reduce((sum, x) => sum + x, 0))
RECURSIVE SumNums(_)
SumNums(s) ==
  IF Len(s) = 0 THEN Num(0)
  ELSE NumAdd(SumNums(SubSeq(s, 1, Len(s) - 1)), s[Len(s)])

(***************************************************************************)
(* Predictions: [class |-> label, score |-> number, bbox |-> <<x, y, width, *)
(* height>>], every component of bbox a number.                             *)
(***************************************************************************)
Pred(c, s, b) == [class |-> c, score |-> s, bbox |-> b]

Box(x, y, w, h) == <<Num(x), Num(y), Num(w), Num(h)>>

\* the intersection over the area of the first box instead of the union
calculateIoUOverFirst(bbox1, bbox2) ==
  LET width == NumSub(NumMin(NumAdd(bbox1[1], bbox1[3]),
                             NumAdd(bbox2[1], bbox2[3])),
                      NumMax(bbox1[1], bbox2[1]))
      height == NumSub(NumMin(NumAdd(bbox1[2], bbox1[4]),
                              NumAdd(bbox2[2], bbox2[4])),
                       NumMax(bbox1[2], bbox2[2]))
  IN  IF NumLe(width, Num(0)) \/ NumLe(height, Num(0))
      THEN Num(0)
      ELSE NumDiv(NumMul(width, height), NumMul(bbox1[3], bbox1[4]))

\* Calculate Intersection over Union
calculateIoU(bbox1, bbox2) ==
  LET x1 == bbox1[1]
      y1 == bbox1[2]
      w1 == bbox1[3]
      h1 == bbox1[4]
      x2 == bbox2[1]
      y2 == bbox2[2]
      w2 == bbox2[3]
      h2 == bbox2[4]
      x1_max == NumAdd(x1, w1)
      y1_max == NumAdd(y1, h1)
      x2_max == NumAdd(x2, w2)
      y2_max == NumAdd(y2, h2)
      intersect_x1 == NumMax(x1, x2)
      intersect_y1 == NumMax(y1, y2)
      intersect_x2 == NumMin(x1_max, x2_max)
      intersect_y2 == NumMin(y1_max, y2_max)
      intersect_area == NumMul(NumSub(intersect_x2, intersect_x1),
                               NumSub(intersect_y2, intersect_y1))
      bbox1_area == NumMul(w1, h1)
      bbox2_area == NumMul(w2, h2)
      union_area == NumSub(NumAdd(bbox1_area, bbox2_area), intersect_area)
  IN  IF NumLe(intersect_x2, intersect_x1) \/ NumLe(intersect_y2, intersect_y1)
      THEN Num(0)
      ELSE NumDiv(intersect_area, union_area)

\* const [width, height] = prediction.bbox takes the first two components
\* of the array [x, y, width, height]
validateMobileDetection(prediction) ==
  LET width == prediction.bbox[1]
      height == prediction.bbox[2]
      aspectRatio == NumDiv(width, height)
      isValidAspectRatio ==
        \/ NumGe(aspectRatio, Frac(35, 100)) /\ NumLe(aspectRatio, Frac(75, 100))
        \/ NumGe(aspectRatio, Frac(14, 10)) /\ NumLe(aspectRatio, Frac(28, 10))
      minArea == Num(1200)
      area == NumMul(width, height)
      hasValidSize == NumGe(area, minArea)
      hasValidConfidence == NumGe(prediction.score, Frac(25, 100))
  IN  isValidAspectRatio /\ hasValidSize /\ hasValidConfidence

\* relevantClasses[pred.class] || 0.5
relevantClasses(class) ==
  CASE class = "cell phone" -> Frac(25, 100)
    [] class = "person" -> Frac(5, 10)
    [] class = "laptop" -> Frac(6, 10)
    [] class = "tablet" -> Frac(5, 10)
    [] class = "book" -> Frac(3, 10)
    [] class = "bottle" -> Frac(4, 10)
    [] class = "cup" -> Frac(4, 10)
    [] class = "mouse" -> Frac(5, 10)
    [] class = "keyboard" -> Frac(6, 10)
    [] class = "remote" -> Frac(4, 10)
    [] class = "tv" -> Frac(6, 10)
    [] class = "monitor" -> Frac(6, 10)
    [] OTHER -> Frac(5, 10)

\* predictions.filter(...) of detectObjects
filterPredictions(predictions) ==
  LET keepPred(pred) ==
        LET meetsThreshold == NumGe(pred.score, relevantClasses(pred.class))
        IN  IF pred.class = "cell phone"
            THEN meetsThreshold /\ validateMobileDetection(pred)
            ELSE meetsThreshold
  IN  SelectSeq(predictions, keepPred)

\* [...preds].sort((a, b) => b.score - a.score): stable, descending
RECURSIVE sortByScore(_)
sortByScore(preds) ==
  IF Len(preds) = 0 THEN <<>>
  ELSE LET rest == sortByScore(SubSeq(preds, 1, Len(preds) - 1))
           p == preds[Len(preds)]
           \* p goes after every element whose score is at least its own
           k == Cardinality({i \in 1..Len(rest) : NumGe(rest[i].score, p.score)})
       IN  SubSeq(rest, 1, k) \o <<p>> \o SubSeq(rest, k + 1, Len(rest))

\* a suppression test with its comparison turned around
suppressesBelow(current, other, threshold) ==
  /\ NumLt(calculateIoU(current.bbox, other.bbox), threshold)
  /\ current.class = other.class

\* a suppression test that does not look at the class
suppressesAnyClass(current, other, threshold) ==
  NumGt(calculateIoU(current.bbox, other.bbox), threshold)

\* iou > threshold && current.class === sorted[j].class
suppresses(current, other, threshold) ==
  /\ NumGt(calculateIoU(current.bbox, other.bbox), threshold)
  /\ current.class = other.class

\* the loop of processPredictions from position i on
RECURSIVE nmsLoop(_, _, _, _, _)
nmsLoop(sorted, threshold, i, keep, suppressed) ==
  IF i > Len(sorted) THEN keep
  ELSE IF i \in suppressed
       THEN nmsLoop(sorted, threshold, i + 1, keep, suppressed)
  ELSE LET hit == {j \in (i + 1)..Len(sorted) :
                     /\ j \notin suppressed
                     /\ suppresses(sorted[i], sorted[j], threshold)}
       IN  nmsLoop(sorted, threshold, i + 1, Append(keep, sorted[i]),
                   suppressed \cup hit)

processPredictions(preds, threshold) ==
  nmsLoop(sortByScore(preds), threshold, 1, <<>>, {})

IsMobile(p) == p.class = "cell phone"

NotMobile(p) == p.class # "cell phone"

\* an early return that hands back nothing
applyNMSDroppingSingle(predictions, iouThreshold) ==
  IF Len(predictions) <= 1 THEN <<>>
  ELSE processPredictions(SelectSeq(predictions, IsMobile), Frac(2, 10))
         \o processPredictions(SelectSeq(predictions, NotMobile),
                               iouThreshold)

\* Non-Maximum Suppression
applyNMS(predictions, iouThreshold) ==
  IF Len(predictions) <= 1 THEN predictions
  ELSE LET mobilePreds == SelectSeq(predictions, IsMobile)
           otherPreds == SelectSeq(predictions, NotMobile)
           filteredMobile == processPredictions(mobilePreds, Frac(2, 10))
           filteredOther == processPredictions(otherPreds, iouThreshold)
       IN  filteredMobile \o filteredOther

(***************************************************************************)
(* Temporal smoothing                                                      *)
(***************************************************************************)
historyWindow == 600

\* history.flatMap((entry) => entry.predictions)
RECURSIVE flatPredictions(_)
flatPredictions(history) ==
  IF Len(history) = 0 THEN <<>>
  ELSE flatPredictions(SubSeq(history, 1, Len(history) - 1))
         \o history[Len(history)].predictions

\* a similarity test that does not look at the class
isSimilarAnyClass(pred, prediction) ==
  NumGt(calculateIoU(pred.bbox, prediction.bbox),
        IF pred.class = "cell phone" THEN Frac(4, 10) ELSE Frac(5, 10))

\* the filter behind similarDetections
isSimilar(pred, prediction) ==
  IF pred.class # prediction.class THEN FALSE
  ELSE LET iouThreshold ==
             IF pred.class = "cell phone" THEN Frac(4, 10) ELSE Frac(5, 10)
       IN  NumGt(calculateIoU(pred.bbox, prediction.bbox), iouThreshold)

\* one boost for every class
confidenceBoostSame(class) == Frac(11, 10)

\* Boost mobile detection confidence if consistently detected
confidenceBoost(class) ==
  IF class = "cell phone" THEN Frac(115, 100) ELSE Frac(11, 10)

\* the prediction pushed for one current prediction, given the pruned history
smoothOne(prediction, history) ==
  LET similarTo(pred) == isSimilar(pred, prediction)
      similarDetections == SelectSeq(flatPredictions(history), similarTo)
      n == Len(similarDetections)
      avgScore ==
        NumDiv(SumNums([k \in 1..n |-> similarDetections[k].score]), Num(n))
      avgBbox ==
        [i \in 1..4 |->
           NumDiv(SumNums([k \in 1..n |-> similarDetections[k].bbox[i]]), Num(n))]
  IN  IF n >= 2
      THEN [class |-> prediction.class,
            score |-> NumMin(Num(1),
                             NumMul(avgScore,
                                    confidenceBoost(prediction.class))),
            bbox |-> avgBbox]
      ELSE prediction

\* a history that is never purged
alwaysInWindow(entry, t) == TRUE

\* a window of twice the length
inWindowTwice(entry, t) == t - entry.timestamp <= 2 * historyWindow

\* Remove old history, Clean mobile history: the entries that stay
inWindow(entry, t) == t - entry.timestamp <= historyWindow

\* a history entry that keeps the smoothed predictions of its pass
storedSmoothed(currentPredictions, smoothedPredictions) == smoothedPredictions

\* Add current predictions to history: the predictions the entry of a pass
\* holds once the pass is over
storedPredictions(currentPredictions, smoothedPredictions) == currentPredictions

\* applyTemporalSmoothing at time t on the histories history and mobileHistory:
\* the new rolling history, the new device history and the returned predictions
applyTemporalSmoothing(currentPredictions, t, history, mobileHistory) ==
  LET recent(entry) == inWindow(entry, t)
      pushed == Append(history,
                       [timestamp |-> t, predictions |-> currentPredictions])
      newHistory == SelectSeq(pushed, recent)
      mobilePreds == SelectSeq(currentPredictions, IsMobile)
      pushedMobile ==
        mobileHistory \o
          [k \in 1..Len(mobilePreds) |->
             [timestamp |-> t, bbox |-> mobilePreds[k].bbox,
              confidence |-> mobilePreds[k].score]]
      newMobileHistory == SelectSeq(pushedMobile, recent)
      smoothedPredictions ==
        IF Len(newHistory) < 2 THEN currentPredictions
        ELSE [k \in 1..Len(currentPredictions) |->
                smoothOne(currentPredictions[k], newHistory)]
      stored == [timestamp |-> t,
                 predictions |-> storedPredictions(currentPredictions,
                                                   smoothedPredictions)]
  IN  [detectionHistory |-> SelectSeq(Append(history, stored), recent),
       mobileHistory |-> newMobileHistory,
       result |-> smoothedPredictions]

(***************************************************************************)
(* Events                                                                  *)
(***************************************************************************)
\* lowerClass.includes(word), for the words the code asks about; the labels
\* are lower-case already
Includes(label, word) ==
  <<label, word>> \in
    {<<"cell phone", "phone">>, <<"cell phone", "cell">>,
     <<"laptop", "laptop">>, <<"tablet", "tablet">>,
     <<"keyboard", "keyboard">>, <<"mouse", "mouse">>,
     <<"monitor", "monitor">>, <<"tv", "tv">>}

\* a type rule without its last return: no type for a class it does not list
getDetectionTypeListedOnly(className) ==
  IF Includes(className, "phone") \/ Includes(className, "cell") THEN "mobile"
  ELSE IF className = "person" THEN "person"
  ELSE IF \/ Includes(className, "laptop")
          \/ Includes(className, "tablet")
          \/ Includes(className, "keyboard")
          \/ Includes(className, "mouse")
          \/ Includes(className, "monitor")
          \/ Includes(className, "tv")
       THEN "unknown_object"
  ELSE "null"

\* a type rule that takes every screen for a phone
getDetectionTypeScreens(className) ==
  IF \/ Includes(className, "phone")
     \/ Includes(className, "cell")
     \/ Includes(className, "tv")
  THEN "mobile"
  ELSE IF className = "person" THEN "person"
  ELSE "unknown_object"

getDetectionType(className) ==
  IF Includes(className, "phone") \/ Includes(className, "cell") THEN "mobile"
  ELSE IF className = "person" THEN "person"
  ELSE IF \/ Includes(className, "laptop")
          \/ Includes(className, "tablet")
          \/ Includes(className, "keyboard")
          \/ Includes(className, "mouse")
          \/ Includes(className, "monitor")
          \/ Includes(className, "tv")
       THEN "unknown_object"
  ELSE "unknown_object"

\* newDetections: one event per smoothed prediction with a detection type;
\* the id is `${currentTime.getTime()}-${index}`
newDetectionsOf(smoothedPredictions, t) ==
  LET typed == {k \in 1..Len(smoothedPredictions) :
                  getDetectionType(smoothedPredictions[k].class) # "null"}
      event(k) == [id |-> <<t, k - 1>>,
                   type |-> getDetectionType(smoothedPredictions[k].class),
                   confidence |-> smoothedPredictions[k].score,
                   bbox |-> smoothedPredictions[k].bbox]
      RECURSIVE collect(_)
      collect(k) ==
        IF k > Len(smoothedPredictions) THEN <<>>
        ELSE (IF k \in typed THEN <<event(k)>> ELSE <<>>) \o collect(k + 1)
  IN  collect(1)

LogCapacity == 50

\* s.slice(-n)
SliceLast(s, n) == IF Len(s) <= n THEN s ELSE SubSeq(s, Len(s) - n + 1, Len(s))

\* an updater that keeps the first events instead of the last
keepOldestDetections(prev, newDetections) ==
  IF Len(newDetections) > 0
  THEN SubSeq(prev \o newDetections, 1,
              IF Len(prev) + Len(newDetections) < LogCapacity
              THEN Len(prev) + Len(newDetections) ELSE LogCapacity)
  ELSE prev

\* the updater passed to setDetections
updateDetections(prev, newDetections) ==
  IF Len(newDetections) > 0
  THEN SliceLast(prev \o newDetections, LogCapacity)
  ELSE prev

(***************************************************************************)
(* Scoring                                                                 *)
(***************************************************************************)
IsPerson(p) == p.class = "person"

IsComputer(p) == p.class \in {"laptop", "tablet", "keyboard", "mouse", "monitor"}

IsDistracting(p) == p.class \in {"bottle", "cup", "book", "remote", "tv"}

\* a bonus for the first person whenever there is one
bonusForAnyPerson(personDetections) ==
  IF Len(personDetections) >= 1
       /\ NumGt(personDetections[1].score, Frac(7, 10))
  THEN Num(5) ELSE Num(0)

\* Bonus for stable person detection
stablePersonBonus(personDetections) ==
  IF Len(personDetections) = 1
       /\ NumGt(personDetections[1].score, Frac(7, 10))
  THEN Num(5) ELSE Num(0)

\* focusScore before rounding
focusScoreOf(smoothedPredictions) ==
  LET personDetections == SelectSeq(smoothedPredictions, IsPerson)
      mobileDevices == SelectSeq(smoothedPredictions, IsMobile)
      computerDevices == SelectSeq(smoothedPredictions, IsComputer)
      distractingObjects == SelectSeq(smoothedPredictions, IsDistracting)
      basePenalty == Num(35)
      mobilePenalty ==
        SumNums([k \in 1..Len(mobileDevices) |->
                   NumMul(basePenalty,
                          NumMin(Frac(15, 10),
                                 NumMul(mobileDevices[k].score, Frac(15, 10))))])
      computerPenalty ==
        SumNums([k \in 1..Len(computerDevices) |->
                   NumMul(computerDevices[k].score, Num(15))])
      distractingPenalty ==
        SumNums([k \in 1..Len(distractingObjects) |->
                   NumMul(distractingObjects[k].score, Num(8))])
      penalised ==
        NumSub(NumSub(NumSub(Num(80), mobilePenalty), computerPenalty),
               distractingPenalty)
      withBonus == NumAdd(penalised, stablePersonBonus(personDetections))
  IN  NumMax(Num(0), NumMin(Num(100), withBonus))

\* 25 points off for every person
eyeContactOfCrowdPerHead(n) ==
  NumMax(Num(30), Num(100 - n * 25))

\* eyeContactScore when several persons are seen
eyeContactOfCrowd(n) ==
  NumMax(Num(30), Num(100 - (n - 1) * 25))

\* eyeContactScore before rounding; inputWidth is inputElement.width
eyeContactScoreOf(smoothedPredictions, inputWidth) ==
  LET personDetections == SelectSeq(smoothedPredictions, IsPerson)
      mobileDevices == SelectSeq(smoothedPredictions, IsMobile)
      person == personDetections[1]
      centeredness ==
        NumSub(Num(1),
               NumAbs(NumSub(NumDiv(NumAdd(person.bbox[1],
                                           NumDiv(person.bbox[3], Num(2))),
                                    inputWidth),
                             Frac(5, 10))))
      single ==
        NumMin(Num(100),
               NumAdd(NumAdd(Num(60), NumMul(person.score, Num(25))),
                      NumMul(centeredness, Num(15))))
  IN  IF Len(personDetections) = 0 THEN Num(20)
      ELSE IF Len(personDetections) = 1
           THEN (IF Len(mobileDevices) > 0 THEN NumSub(single, Num(20))
                 ELSE single)
      ELSE eyeContactOfCrowd(Len(personDetections))

\* headPoseScore before rounding
headPoseScoreOf(smoothedPredictions, inputWidth, inputHeight) ==
  LET personDetections == SelectSeq(smoothedPredictions, IsPerson)
      mobileDevices == SelectSeq(smoothedPredictions, IsMobile)
      person == personDetections[1]
      faceSize == NumDiv(NumMul(person.bbox[3], person.bbox[4]),
                         NumMul(inputWidth, inputHeight))
      sizeScore == NumMin(Num(40), NumMul(faceSize, Num(1000)))
      single ==
        NumMin(Num(100),
               NumAdd(NumAdd(Num(50), NumMul(person.score, Num(30))), sizeScore))
  IN  IF Len(personDetections) = 1
      THEN (IF Len(mobileDevices) > 0 THEN NumSub(single, Num(15)) ELSE single)
      ELSE Num(60)

\* the three scores before rounding
rawScores(smoothedPredictions, inputWidth, inputHeight) ==
  [focusScore |-> focusScoreOf(smoothedPredictions),
   eyeContactScore |-> eyeContactScoreOf(smoothedPredictions, inputWidth),
   headPoseScore |->
     headPoseScoreOf(smoothedPredictions, inputWidth, inputHeight)]

\* overallAttention taken from the rounded scores
overallFromRounded(smoothedPredictions, inputWidth, inputHeight) ==
  LET raw == rawScores(smoothedPredictions, inputWidth, inputHeight)
      f == NumRound(raw.focusScore)
      e == NumRound(raw.eyeContactScore)
      h == NumRound(raw.headPoseScore)
  IN  [focusScore |-> f, eyeContactScore |-> e, headPoseScore |-> h,
       overallAttention |->
         NumRound(NumDiv(NumAdd(NumAdd(f, e), h), Num(3)))]

\* newFocusMetrics
newFocusMetricsOf(smoothedPredictions, inputWidth, inputHeight) ==
  LET raw == rawScores(smoothedPredictions, inputWidth, inputHeight)
  IN  [focusScore |-> NumRound(raw.focusScore),
       eyeContactScore |-> NumRound(raw.eyeContactScore),
       headPoseScore |-> NumRound(raw.headPoseScore),
       overallAttention |->
         NumRound(NumDiv(NumAdd(NumAdd(raw.focusScore, raw.eyeContactScore),
                                raw.headPoseScore),
                         Num(3)))]

\* the metrics of the initial state and of clearDetections
fullMetrics ==
  [focusScore |-> Num(100), eyeContactScore |-> Num(100),
   headPoseScore |-> Num(100), overallAttention |-> Num(100)]

\* the scores of the initial state and of clearDetections
fullScores ==
  [focusScore |-> Num(100), eyeContactScore |-> Num(100),
   headPoseScore |-> Num(100)]

\* the object detectObjects returns on success
pipelineResult(smoothedPredictions, newDetections) ==
  LET personDetections == SelectSeq(smoothedPredictions, IsPerson)
      mobileDevices == SelectSeq(smoothedPredictions, IsMobile)
      computerDevices == SelectSeq(smoothedPredictions, IsComputer)
  IN  [predictions |-> smoothedPredictions,
       newDetections |-> newDetections,
       mobileCount |-> Len(mobileDevices),
       personCount |-> Len(personDetections),
       totalDevices |-> Len(mobileDevices) + Len(computerDevices)]

(***************************************************************************)
(* State of one hook instance and of its environment                       *)
(***************************************************************************)
VARIABLES
  modelRef,               \* modelRef.current is a loaded model
  isModelLoaded,          \* React state isModelLoaded
  detections,             \* React state detections: the event log
  focusMetrics,           \* React state focusMetrics
  detectionHistoryRef,    \* rolling history
  lastDetectionTimeRef,   \* start time of the last admitted invocation
  mobileDetectionHistory, \* device history
  isDetecting,            \* in-flight flag
  load,                   \* position of loadModel: the backend it tries next
  now,                    \* Date.now()
  calls,                  \* invocations of detectObjects awaiting model.detect
  canvases,               \* canvases returned by preprocessVideo, not removed
  returned,               \* what the invocation returning in this step returned
  admitted,               \* admitted invocations: their number, the last two starts
  appended,               \* events appended since the log was last emptied
  rawMetrics,             \* the three scores behind focusMetrics, unrounded
  probe,                  \* one application of a pure function: input, output
  webcam                  \* the refs, prop and camera of one WebcamPlayer

vars ==
  <<modelRef, isModelLoaded, detections, focusMetrics, detectionHistoryRef,
    lastDetectionTimeRef, mobileDetectionHistory, isDetecting, load, now,
    calls, canvases, returned, admitted, appended, rawMetrics, probe,
    webcam>>

\* the state owned by the orchestrator that a pipeline pass writes
owned ==
  <<detections, focusMetrics, detectionHistoryRef, mobileDetectionHistory>>

backends == <<"webgl", "webgpu", "cpu">>

\* Max 10 FPS
RateLimitMs == 100

\* maxSize of preprocessVideo
maxSize == 640

(***************************************************************************)
(* Bounds of the model                                                     *)
(***************************************************************************)
\* Date.now() when the hook is constructed
Epoch == 1000

\* the clock advances in steps of half the rate limit
TickMs == RateLimitMs \div 2

MaxTicks == 4

MaxAdmitted == 2

\* the video elements a caller may pass: none, one without data, and ready
\* ones with or without decoded dimensions and with or without a 2d context.
\* No caller sets the width or height attribute of its <video>, so
\* videoElement.width and videoElement.height are 0.
Frame(present, readyState, vw, vh, ctx) ==
  [present |-> present, readyState |-> readyState, videoWidth |-> vw,
   videoHeight |-> vh, context |-> ctx, width |-> 0, height |-> 0]

Frames ==
  {Frame(FALSE, 0, 0, 0, FALSE),
   Frame(TRUE, 1, 0, 0, TRUE),
   Frame(TRUE, 4, 200, 150, TRUE),
   Frame(TRUE, 4, 200, 150, FALSE),
   Frame(TRUE, 4, 0, 0, TRUE),
   Frame(TRUE, 4, 0, 0, FALSE)}

\* what model.detect may resolve with
DetectorOutputs ==
  {<<>>,
   <<Pred("person", Frac(88, 100), Box(52, 25, 80, 100)),
     Pred("book", Frac(45, 100), Box(150, 100, 30, 20))>>,
   <<Pred("cell phone", Frac(6, 10), Box(32, 62, 20, 40)),
     Pred("person", Frac(9, 10), Box(60, 20, 80, 110)),
     Pred("cell phone", Frac(8, 10), Box(30, 60, 20, 40))>>,
   <<Pred("person", Frac(4, 10), Box(10, 10, 50, 80)),
     Pred("laptop", Frac(7, 10), Box(100, 80, 60, 40)),
     Pred("cell phone", Frac(9, 10), Box(50, 50, 40, 40))>>}

NoResult ==
  [predictions |-> <<>>, newDetections |-> <<>>, mobileCount |-> 0,
   personCount |-> 0, totalDevices |-> 0]

\* the value an invocation hands to its caller
Return(outcome, isNull, result) ==
  [outcome |-> outcome, isNull |-> isNull, threw |-> FALSE,
   result |-> result]

\* no invocation returned in the last step
NoReturn == Return("none", TRUE, NoResult)

\* no pure function is being applied on its own
NoProbe == [fn |-> "none"]

\* the refs and React state of a hook that has just been constructed
Constructed ==
  /\ modelRef = FALSE
  /\ isModelLoaded = FALSE
  /\ detections = <<>>
  /\ focusMetrics = fullMetrics
  /\ detectionHistoryRef = <<>>
  /\ lastDetectionTimeRef = 0
  /\ mobileDetectionHistory = <<>>
  /\ isDetecting = FALSE
  /\ load = [pc |-> "loading", next |-> 1]
  /\ now = Epoch
  /\ calls = {}
  /\ canvases = {}
  /\ returned = NoReturn
  /\ admitted = [count |-> 0, starts |-> <<>>]
  /\ appended = <<>>
  /\ rawMetrics = fullScores

\* a WebcamPlayer that has been mounted inactive: both refs as useRef made
\* them, no camera request made, no stream acquired; streams are numbered
\* from 1 and 0 stands for null
Mounted ==
  [isActive |-> FALSE, streamRef |-> 0, isInitializing |-> FALSE,
   srcObject |-> 0, requests |-> {}, live |-> {}, listeners |-> {},
   plays |-> {}, started |-> 0]

Init == Constructed /\ probe = NoProbe /\ webcam = Mounted

(***************************************************************************)
(* loadModel                                                               *)
(***************************************************************************)
\* one round of the loop over backends: setBackend, ready and load succeed
\* (ok) or one of them throws
TryBackend(ok) ==
  /\ load.pc = "loading"
  /\ IF ok
     THEN \* break
          /\ modelRef' = TRUE
          /\ isModelLoaded' = TRUE
          /\ load' = [pc |-> "loaded", next |-> 0]
     ELSE IF load.next < Len(backends)
     THEN \* continue
          /\ load' = [pc |-> "loading", next |-> load.next + 1]
          /\ UNCHANGED <<modelRef, isModelLoaded>>
     ELSE \* throw new Error(...), caught: setIsModelLoaded(false)
          /\ load' = [pc |-> "failed", next |-> 0]
          /\ isModelLoaded' = FALSE
          /\ UNCHANGED modelRef
  /\ UNCHANGED <<webcam, probe, detections, focusMetrics, detectionHistoryRef,
                 lastDetectionTimeRef, mobileDetectionHistory, isDetecting,
                 now, calls, canvases, admitted, appended, rawMetrics>>
  /\ returned' = NoReturn

(***************************************************************************)
(* detectObjects, up to its await                                          *)
(***************************************************************************)
\* the first test without its look at the in-flight flag
notReadyIgnoringInFlight(videoElement) ==
  \/ ~modelRef
  \/ ~videoElement.present
  \/ videoElement.readyState < 2

\* the first test of detectObjects
notReady(videoElement) ==
  \/ ~modelRef
  \/ ~videoElement.present
  \/ videoElement.readyState < 2
  \/ isDetecting

\* a throttle of half the interval
throttledHalf == now - lastDetectionTimeRef < RateLimitMs \div 2

\* Throttle detection
throttled == now - lastDetectionTimeRef < RateLimitMs

\* the timestamp taken before the throttle test instead of after it
lastDetectionTimeBeforeThrottle(videoElement) ==
  IF notReady(videoElement) THEN lastDetectionTimeRef ELSE now

\* an invocation that never records its start time
lastDetectionTimeUnrecorded(videoElement) == lastDetectionTimeRef

\* lastDetectionTimeRef.current once an invocation is through the two tests
lastDetectionTimeAfterGate(videoElement) ==
  IF notReady(videoElement) \/ throttled THEN lastDetectionTimeRef ELSE now

\* the value a canvas dimension takes when it is assigned a number
ToDimension(a) == IF ~IsFinite(a) \/ a[1] < 0 THEN 0 ELSE a[1] \div a[2]

MinInt(a, b) == IF a < b THEN a ELSE b

\* the size preprocessVideo gives its canvas
canvasSize(videoElement) ==
  LET aspectRatio ==
        NumDiv(Num(videoElement.videoWidth), Num(videoElement.videoHeight))
      w1 == MinInt(maxSize, videoElement.videoWidth)
      h2 == MinInt(maxSize, videoElement.videoHeight)
  IN  IF NumGt(aspectRatio, Num(1))
      THEN [width |-> w1, height |-> ToDimension(NumDiv(Num(w1), aspectRatio))]
      ELSE [width |-> ToDimension(NumMul(Num(h2), aspectRatio)), height |-> h2]

\* a fallback to the video element that never looks at its dimensions
rawFrameAlwaysReady(videoElement) == FALSE

\* Ensure input is ready for detection: the test made when inputElement is
\* the video element itself
noDimensions(videoElement) ==
  videoElement.videoWidth = 0 \/ videoElement.videoHeight = 0

\* the flag reset at the end of the try block instead of in a finally
resetOnSuccessOnly(outcome) == outcome # "ok"

\* the in-flight flag once an invocation has left its try block
finallyIsDetecting(outcome) == FALSE

\* one call of detectObjects, run until it returns or awaits the detector
Invoke(videoElement) ==
  LET id == admitted.count + 1
      size == canvasSize(videoElement)
  IN
  IF notReady(videoElement) \/ throttled
  THEN /\ returned' = Return("rejected", TRUE, NoResult)
       /\ lastDetectionTimeRef' = lastDetectionTimeAfterGate(videoElement)
       /\ UNCHANGED <<webcam, probe, modelRef, isModelLoaded, detections, focusMetrics,
                      detectionHistoryRef, mobileDetectionHistory, isDetecting,
                      load, now, calls, canvases, admitted, appended,
                      rawMetrics>>
  ELSE
    /\ lastDetectionTimeRef' = lastDetectionTimeAfterGate(videoElement)
    /\ admitted' = [count |-> id,
                    starts |-> SliceLast(Append(admitted.starts, now), 2)]
    /\ UNCHANGED <<webcam, probe, modelRef, isModelLoaded, detections, focusMetrics,
                   detectionHistoryRef, mobileDetectionHistory, load, now,
                   appended, rawMetrics>>
    /\ IF ~videoElement.context
       THEN \* preprocessVideo returns null: inputElement is the video
            IF noDimensions(videoElement)
            THEN /\ returned' = Return("skipped", TRUE, NoResult)
                 /\ isDetecting' = finallyIsDetecting("skipped")
                 /\ UNCHANGED <<calls, canvases>>
            ELSE /\ calls' = calls \cup
                       {[id |-> id, canvas |-> FALSE,
                         width |-> videoElement.width,
                         height |-> videoElement.height,
                         videoWidth |-> videoElement.videoWidth,
                         videoHeight |-> videoElement.videoHeight]}
                 /\ isDetecting' = TRUE
                 /\ returned' = NoReturn
                 /\ UNCHANGED canvases
       ELSE IF size.width = 0 \/ size.height = 0
       THEN \* getImageData throws on an empty rectangle: preprocessVideo
            \* hands no canvas to detectObjects
            /\ returned' = Return("preprocess_error", TRUE, NoResult)
            /\ isDetecting' = finallyIsDetecting("preprocess_error")
            /\ UNCHANGED <<calls, canvases>>
       ELSE /\ canvases' = canvases \cup {id}
            /\ calls' = calls \cup
                  {[id |-> id, canvas |-> TRUE, width |-> size.width,
                    height |-> size.height,
                    videoWidth |-> videoElement.videoWidth,
                    videoHeight |-> videoElement.videoHeight]}
            /\ isDetecting' = TRUE
            /\ returned' = NoReturn

(***************************************************************************)
(* detectObjects, after its await                                          *)
(***************************************************************************)
\* the canvases left once the invocation call has run its clean-up on the
\* path that ends with outcome
canvasesAfter(call, outcome) ==
  IF outcome = "ok" /\ call.canvas THEN canvases \ {call.id} ELSE canvases

\* model.detect resolves with predictions: the rest of the try block
DetectResolves(call, predictions) ==
  /\ call \in calls
  /\ \E nmsFiltered \in {applyNMS(filterPredictions(predictions), Frac(3, 10))} :
     \E smoothed \in {applyTemporalSmoothing(nmsFiltered, now,
                                             detectionHistoryRef,
                                             mobileDetectionHistory)} :
     \E smoothedPredictions \in {smoothed.result} :
     \E newDetections \in {newDetectionsOf(smoothedPredictions, now)} :
         /\ detectionHistoryRef' = smoothed.detectionHistory
         /\ mobileDetectionHistory' = smoothed.mobileHistory
         /\ focusMetrics' = newFocusMetricsOf(smoothedPredictions,
                                              Num(call.width),
                                              Num(call.height))
         /\ detections' = updateDetections(detections, newDetections)
         /\ appended' = appended \o newDetections
         /\ rawMetrics' = rawScores(smoothedPredictions, Num(call.width),
                                    Num(call.height))
         /\ returned' = Return("ok", FALSE,
                               pipelineResult(smoothedPredictions,
                                              newDetections))
  /\ canvases' = canvasesAfter(call, "ok")
  /\ calls' = calls \ {call}
  /\ isDetecting' = finallyIsDetecting("ok")
  /\ UNCHANGED <<webcam, probe, modelRef, isModelLoaded, lastDetectionTimeRef, load, now,
                 admitted>>

\* a catch block that resets the metrics snapshot
resetMetricsOnError ==
  [detections |-> detections, focusMetrics |-> fullMetrics,
   detectionHistoryRef |-> detectionHistoryRef,
   mobileDetectionHistory |-> mobileDetectionHistory]

\* what the catch block leaves of the orchestrator's state
stateAfterError ==
  [detections |-> detections, focusMetrics |-> focusMetrics,
   detectionHistoryRef |-> detectionHistoryRef,
   mobileDetectionHistory |-> mobileDetectionHistory]

\* model.detect rejects: catch and finally
DetectRejects(call) ==
  /\ call \in calls
  /\ detections' = stateAfterError.detections
  /\ focusMetrics' = stateAfterError.focusMetrics
  /\ detectionHistoryRef' = stateAfterError.detectionHistoryRef
  /\ mobileDetectionHistory' = stateAfterError.mobileDetectionHistory
  /\ returned' = Return("detect_error", TRUE, NoResult)
  /\ canvases' = canvasesAfter(call, "detect_error")
  /\ calls' = calls \ {call}
  /\ isDetecting' = finallyIsDetecting("detect_error")
  /\ UNCHANGED <<webcam, probe, modelRef, isModelLoaded, lastDetectionTimeRef, load, now,
                 admitted, appended, rawMetrics>>

(***************************************************************************)
(* clearDetections                                                         *)
(***************************************************************************)
\* a clear that forgets the device history
clearKeepingDeviceHistory ==
  /\ detections' = <<>>
  /\ detectionHistoryRef' = <<>>
  /\ focusMetrics' = fullMetrics
  /\ appended' = <<>>
  /\ rawMetrics' = fullScores
  /\ UNCHANGED <<webcam, probe, modelRef, isModelLoaded, lastDetectionTimeRef,
                 mobileDetectionHistory, isDetecting, load, now, calls,
                 canvases, admitted>>
  /\ returned' = NoReturn

ClearDetections ==
  /\ detections' = <<>>
  /\ detectionHistoryRef' = <<>>
  /\ mobileDetectionHistory' = <<>>
  /\ focusMetrics' = fullMetrics
  /\ appended' = <<>>
  /\ rawMetrics' = fullScores
  /\ UNCHANGED <<webcam, probe, modelRef, isModelLoaded, lastDetectionTimeRef, isDetecting,
                 load, now, calls, canvases, admitted>>
  /\ returned' = NoReturn

(***************************************************************************)
(* The clock                                                               *)
(***************************************************************************)
Tick(ms) ==
  /\ now' = now + ms
  /\ UNCHANGED <<webcam, probe, modelRef, isModelLoaded, detections, focusMetrics,
                 detectionHistoryRef, lastDetectionTimeRef,
                 mobileDetectionHistory, isDetecting, load, calls, canvases,
                 admitted, appended, rawMetrics>>
  /\ returned' = NoReturn

Next ==
  \/ \E ok \in BOOLEAN : TryBackend(ok)
  \/ \E videoElement \in Frames :
       admitted.count < MaxAdmitted /\ Invoke(videoElement)
  \/ \E call \in calls, predictions \in DetectorOutputs :
       DetectResolves(call, predictions)
  \/ \E call \in calls : DetectRejects(call)
  \/ ClearDetections
  \/ now < Epoch + MaxTicks * TickMs /\ Tick(TickMs)

Spec == Init /\ [][Next]_vars

(***************************************************************************)
(* A caller that submits one decodable frame every 100 ms to a detector     *)
(* that always sees the same scene: long runs that fill the event log.      *)
(***************************************************************************)
MaxLogPasses == 21

LogFrame == Frame(TRUE, 4, 200, 150, TRUE)

LogOutput ==
  <<Pred("cell phone", Frac(6, 10), Box(32, 62, 20, 40)),
    Pred("person", Frac(9, 10), Box(60, 20, 80, 110)),
    Pred("cell phone", Frac(8, 10), Box(30, 60, 20, 40)),
    Pred("laptop", Frac(7, 10), Box(100, 80, 60, 40))>>

\* the next timer tick, once the pass of this tick is over
TickLog ==
  /\ calls = {}
  /\ lastDetectionTimeRef = now
  /\ now < Epoch + MaxLogPasses * RateLimitMs
  /\ Tick(RateLimitMs)

NextLog ==
  \/ TryBackend(TRUE)
  \/ admitted.count < MaxLogPasses /\ Invoke(LogFrame)
  \/ \E call \in calls : DetectResolves(call, LogOutput)
  \/ ClearDetections
  \/ TickLog

SpecLog == Init /\ [][NextLog]_vars

(***************************************************************************)
(* Properties                                                              *)
(***************************************************************************)
Finished == {"ok", "skipped", "preprocess_error", "detect_error"}

\* C1: at most one invocation awaits the detector at any time, and while one
\* does, every invocation submitted, whatever its frame, is turned away at the
\* first test: none is added to the invocations in flight.
C1_SingleInFlight ==
  /\ Cardinality(calls) <= 1
  /\ calls # {} => \A videoElement \in Frames : notReady(videoElement)

\* an invocation was rejected while another one was in flight, although the
\* rate limit had expired
C1_Witness ==
  /\ calls # {}
  /\ returned.outcome = "rejected"
  /\ now - lastDetectionTimeRef >= RateLimitMs

\* C2: the start times of two consecutive admitted invocations, hence of any
\* two, differ by at least 100 ms.
C2_RateCap ==
  Len(admitted.starts) = 2 =>
    admitted.starts[2] - admitted.starts[1] >= RateLimitMs

\* two invocations were admitted exactly 100 ms apart
C2_Witness ==
  /\ Len(admitted.starts) = 2
  /\ admitted.starts[2] - admitted.starts[1] = RateLimitMs

\* C3: a step in which an invocation is rejected at the gate returns null and
\* changes neither history, nor the event log, the metrics snapshot, the
\* in-flight flag or the rate-limit timestamp.
C3_RejectionHasNoEffect ==
  [][returned'.outcome = "rejected" =>
       /\ returned'.isNull
       /\ UNCHANGED <<detectionHistoryRef, mobileDetectionHistory, detections,
                      focusMetrics, isDetecting, lastDetectionTimeRef>>]_vars

\* an invocation was rejected while the log and the history were not empty
C3_Witness ==
  /\ returned.outcome = "rejected"
  /\ detections # <<>>
  /\ detectionHistoryRef # <<>>

\* C4: the in-flight flag is set exactly while an invocation awaits the
\* detector; it is clear once an admitted invocation has returned, on every
\* path, and then a decodable frame submitted 100 ms or more after the last
\* admitted start passes the gate.
C4_BackToIdle ==
  /\ returned.outcome \in Finished => ~isDetecting
  /\ isDetecting <=> calls # {}
  /\ (modelRef /\ calls = {} /\ ~throttled) => ~notReady(LogFrame)

\* the detector call of an invocation failed, 100 ms or more after it
\* started, and a decodable frame would now be admitted
C4_Witness ==
  /\ returned.outcome = "detect_error"
  /\ ~throttled
  /\ ~notReady(LogFrame)

\* C5: the step in which the detector call fails returns null, throws nothing
\* and leaves both histories, the event log and the metrics snapshot as they
\* are; so does the step that admitted the invocation.
C5_DetectorErrorLeavesState ==
  [][/\ returned'.outcome = "detect_error" =>
          returned'.isNull /\ ~returned'.threw /\ UNCHANGED owned
     /\ admitted' # admitted => UNCHANGED owned]_vars

\* a detector call failed while the log and the history were not empty
C5_Witness ==
  /\ returned.outcome = "detect_error"
  /\ detections # <<>>
  /\ detectionHistoryRef # <<>>

\* C6: the event log holds at most 50 events and is the last min(50, n) of
\* the n events appended since it was last emptied, in the order appended.
C6_LogIsNewestFifty ==
  /\ Len(detections) <= LogCapacity
  /\ detections = SliceLast(appended, LogCapacity)

\* 60 or more events were appended in a row and 50 are left
C6_Witness ==
  /\ Len(appended) >= LogCapacity + 10
  /\ Len(detections) = LogCapacity

IsPublishedScore(a) == a[2] = 1 /\ a[1] \in 0..100

\* C7: each of the four published metrics is an integer in [0,100].
C7_ScoresInRange ==
  /\ IsPublishedScore(focusMetrics.focusScore)
  /\ IsPublishedScore(focusMetrics.eyeContactScore)
  /\ IsPublishedScore(focusMetrics.headPoseScore)
  /\ IsPublishedScore(focusMetrics.overallAttention)

MeanOfThree(a, b, c) == NumDiv(NumAdd(NumAdd(a, b), c), Num(3))

\* the rounded mean of the three published scores
RoundedMeanOfPublished ==
  NumRound(MeanOfThree(focusMetrics.focusScore, focusMetrics.eyeContactScore,
                       focusMetrics.headPoseScore))

\* C8 as stated: overallAttention of a snapshot published by a pass is the
\* rounded mean of the published focusScore, eyeContactScore and
\* headPoseScore.
C8_MeanOfPublished ==
  returned.outcome = "ok" =>
    focusMetrics.overallAttention = RoundedMeanOfPublished

\* C8 as amended: overallAttention is the rounded mean of the three scores
\* before they are rounded, each published score is the rounding of its
\* unrounded score, and overallAttention is at most 1 away from the rounded
\* mean of the published scores whenever the scores are finite.
C8_MeanOfUnrounded ==
  returned.outcome = "ok" =>
    /\ focusMetrics.overallAttention =
         NumRound(MeanOfThree(rawMetrics.focusScore,
                              rawMetrics.eyeContactScore,
                              rawMetrics.headPoseScore))
    /\ focusMetrics.focusScore = NumRound(rawMetrics.focusScore)
    /\ focusMetrics.eyeContactScore = NumRound(rawMetrics.eyeContactScore)
    /\ focusMetrics.headPoseScore = NumRound(rawMetrics.headPoseScore)
    /\ IsFinite(focusMetrics.overallAttention) =>
         AbsInt(focusMetrics.overallAttention[1] - RoundedMeanOfPublished[1])
           <= 1

\* a pass published an overallAttention that is not the rounded mean of the
\* scores published with it
C8_Witness ==
  /\ returned.outcome = "ok"
  /\ IsFinite(focusMetrics.overallAttention)
  /\ focusMetrics.overallAttention # RoundedMeanOfPublished

\* C9: every canvas that preprocessVideo returned and that has not been
\* removed belongs to an invocation that has not returned yet.
C9_CanvasReleased == \A id \in canvases : \E call \in calls : call.id = id

\* isModelLoaded as the caller sees it while loadModel is running
LoadingIsModelLoaded == FALSE

\* C10: once every backend has failed the orchestrator has no model, and what
\* the caller sees differs from what it saw while loading was in progress.
C10_FailureSurfaced ==
  load.pc = "failed" =>
    /\ ~modelRef
    /\ isModelLoaded # LoadingIsModelLoaded


\* C11 as stated: whenever preprocessVideo hands no bitmap to detectObjects,
\* the pass is skipped, so no invocation ever waits for the detector without
\* a bitmap of its own
C11_NoBitmapSkips == \A call \in calls : call.canvas

\* C11, amended: a frame without decoded dimensions (videoWidth or
\* videoHeight 0) never reaches the detector, and the invocation that skips
\* it returns null, starts no detector call and leaves the log, the metrics
\* and both histories as they were
C11_UndecodableSkips ==
  [][/\ \A call \in calls' : call.videoWidth > 0 /\ call.videoHeight > 0
     /\ returned'.outcome \in {"skipped", "preprocess_error"}
          => /\ returned'.isNull
             /\ calls' = calls
             /\ UNCHANGED owned]_vars

\* a frame without dimensions and without bitmap is skipped while the log
\* holds events
C11_Witness == returned.outcome = "skipped" /\ detections # <<>>


\* C12: while an invocation is in flight, the log, the metrics and the two
\* histories change only in the step in which that invocation completes; no
\* other operation (clearDetections, a second submission) writes them
C12_OnlyTheInvocationWrites ==
  [][calls # {} /\ owned' # owned => calls' # calls]_vars


\* C13: the events in the log have pairwise distinct ids
C13_DistinctIds ==
  \A i, j \in 1..Len(detections) :
    i # j => detections[i].id # detections[j].id


(***************************************************************************)
(* Pure functions of the hook applied on their own: the input is drawn     *)
(* when the specification starts, one step applies the function.           *)
(***************************************************************************)
\* the refs and React state, which no pure function touches
hook ==
  <<modelRef, isModelLoaded, detections, focusMetrics, detectionHistoryRef,
    lastDetectionTimeRef, mobileDetectionHistory, isDetecting, load, now,
    calls, canvases, returned, admitted, appended, rawMetrics>>

\* device predictions as the detector may report them
FilterInputs ==
  {Pred("cell phone", score, Box(x, y, w, h)) :
     score \in {Frac(2, 10), Frac(25, 100), Frac(9, 10)},
     x \in {30, 50, 60}, y \in {30, 50, 60},
     w \in {20, 30, 40, 60}, h \in {20, 30, 40, 60}}

InitFilter ==
  /\ Constructed
  /\ webcam = Mounted
  /\ probe \in {[fn |-> "filter", input |-> <<p>>, done |-> FALSE,
                  output |-> <<>>] : p \in FilterInputs}

\* predictions.filter(...) of detectObjects on a single device prediction
ApplyFilter ==
  /\ probe.fn = "filter"
  /\ ~probe.done
  /\ probe' = [probe EXCEPT !.done = TRUE,
                             !.output = filterPredictions(probe.input)]
  /\ UNCHANGED <<hook, webcam>>

NextFilter == ApplyFilter

SpecFilter == InitFilter /\ [][NextFilter]_vars

\* C14: a device prediction that survives filtering has confidence at least
\* 0.25, a width/height ratio in [0.35, 0.75] or [1.4, 2.8] and an area
\* width x height of at least 1200; so a square box never survives
C14_DeviceFilter ==
  probe.fn = "filter" /\ probe.done /\ probe.output # <<>>
    => LET p == probe.input[1]
           width == p.bbox[3]
           height == p.bbox[4]
           ratio == NumDiv(width, height)
       IN  /\ NumGe(p.score, Frac(25, 100))
           /\ \/ NumGe(ratio, Frac(35, 100)) /\ NumLe(ratio, Frac(75, 100))
              \/ NumGe(ratio, Frac(14, 10)) /\ NumLe(ratio, Frac(28, 10))
           /\ NumGe(NumMul(width, height), Num(1200))


(***************************************************************************)
(* applyNMS on its own                                                     *)
(***************************************************************************)
MaxNmsLen == 4

\* predictions that have passed the filter: four persons of which the
\* second overlaps the first a little and the third and fourth a lot, a
\* person that ties with the second, three phones, a laptop on a person
NmsPool ==
  {Pred("person", Frac(9, 10), Box(0, 0, 10, 10)),
   Pred("person", Frac(8, 10), Box(5, 0, 10, 10)),
   Pred("person", Frac(7, 10), Box(9, 0, 10, 10)),
   Pred("person", Frac(6, 10), Box(5, 4, 10, 10)),
   Pred("person", Frac(8, 10), Box(6, 0, 10, 10)),
   Pred("cell phone", Frac(9, 10), Box(30, 60, 30, 40)),
   Pred("cell phone", Frac(6, 10), Box(40, 60, 30, 40)),
   Pred("cell phone", Frac(5, 10), Box(48, 60, 30, 40)),
   Pred("laptop", Frac(9, 10), Box(0, 0, 10, 10))}

\* the lists of up to MaxNmsLen different predictions of the pool
NmsInputs ==
  UNION {{l \in [1..n -> NmsPool] :
            \A i, j \in 1..n : i # j => l[i] # l[j]} : n \in 0..MaxNmsLen}

\* the threshold detectObjects passes for the classes other than the
\* device class, and a higher one
NmsThresholds == {Frac(3, 10), Frac(4, 10)}

InitNMS ==
  /\ Constructed
  /\ webcam = Mounted
  /\ probe \in {[fn |-> "nms", input |-> l, t1 |-> Frac(3, 10), t2 |-> t,
                  done |-> FALSE, low |-> <<>>, high |-> <<>>,
                  again |-> <<>>] : l \in NmsInputs, t \in NmsThresholds}

\* applyNMS on the input with either threshold, and on its own output
ApplyNMS ==
  /\ probe.fn = "nms"
  /\ ~probe.done
  /\ LET low == applyNMS(probe.input, probe.t1)
     IN  probe' = [probe EXCEPT !.done = TRUE,
                                !.low = low,
                                !.high = applyNMS(probe.input, probe.t2),
                                !.again = applyNMS(low, probe.t1)]
  /\ UNCHANGED <<hook, webcam>>

NextNMS == ApplyNMS

SpecNMS == InitNMS /\ [][NextNMS]_vars

\* C15 as stated: with a higher threshold for the classes other than the
\* device class, applyNMS keeps at least as many predictions
C15_MonotoneInThreshold ==
  probe.fn = "nms" /\ probe.done => Len(probe.high) >= Len(probe.low)

\* the predictions of a list that are of the class of prediction p
SameClass(l, p) == {i \in 1..Len(l) : l[i].class = p.class}

\* C15, amended: with a higher threshold applyNMS keeps at least as many
\* predictions of every list in which no class other than the device class
\* occurs more than three times
C15_MonotoneUpToThree ==
  /\ probe.fn = "nms"
  /\ probe.done
  /\ \A i \in 1..Len(probe.input) :
       IsMobile(probe.input[i])
         \/ Cardinality(SameClass(probe.input, probe.input[i])) <= 3
  => Len(probe.high) >= Len(probe.low)

\* three persons of which the higher threshold keeps more
C15_Witness ==
  /\ probe.fn = "nms"
  /\ probe.done
  /\ Len(probe.input) = 3
  /\ \A i \in 1..3 : probe.input[i].class = "person"
  /\ Len(probe.high) > Len(probe.low)


\* the place of l[i] when l is visited in descending confidence, ties in
\* the order of l
RefRank(l, i) ==
  1 + Cardinality({j \in 1..Len(l) :
                     \/ NumGt(l[j].score, l[i].score)
                     \/ l[j].score = l[i].score /\ j < i})

RefVisitOrder(l) ==
  [k \in 1..Len(l) |-> l[CHOOSE i \in 1..Len(l) : RefRank(l, i) = k]]

\* the predictions kept among the first n visited: a prediction is kept
\* unless one already kept has its class and an IoU above the threshold
RECURSIVE RefKept(_, _, _)
RefKept(visited, threshold, n) ==
  IF n = 0 THEN <<>>
  ELSE LET before == RefKept(visited, threshold, n - 1)
           p == visited[n]
       IN  IF \E k \in 1..Len(before) :
                /\ before[k].class = p.class
                /\ NumGt(calculateIoU(before[k].bbox, p.bbox), threshold)
           THEN before
           ELSE Append(before, p)

\* the reference procedure: devices at 0.2, then the rest at the threshold
RefNMS(l, threshold) ==
  LET devices == SelectSeq(l, IsMobile)
      rest == SelectSeq(l, NotMobile)
  IN  RefKept(RefVisitOrder(devices), Frac(2, 10), Len(devices))
        \o RefKept(RefVisitOrder(rest), threshold, Len(rest))

\* two device predictions with IoU 0.5 and confidences 0.9 and 0.6
PhoneHigh == Pred("cell phone", Frac(9, 10), Box(30, 60, 30, 40))

PhoneLow == Pred("cell phone", Frac(6, 10), Box(40, 60, 30, 40))

\* C16: applyNMS returns what the reference greedy procedure returns
\* (devices apart from the rest, descending confidence with ties in input
\* order, suppression by an already kept prediction of the same class with
\* IoU above 0.2 for devices and above the threshold, 0.3, for the rest,
\* kept devices before the kept rest); of two devices with IoU 0.5 and
\* confidences 0.9 and 0.6 it returns the one of 0.9 alone
C16_GreedyReference ==
  probe.fn = "nms" /\ probe.done
    => /\ probe.low = RefNMS(probe.input, probe.t1)
       /\ probe.high = RefNMS(probe.input, probe.t2)
       /\ probe.input \in {<<PhoneHigh, PhoneLow>>, <<PhoneLow, PhoneHigh>>}
            => /\ calculateIoU(PhoneHigh.bbox, PhoneLow.bbox) = Frac(5, 10)
               /\ probe.low = <<PhoneHigh>>

\* the two devices, the weaker one first, with the stronger one kept
C16_Witness ==
  /\ probe.fn = "nms"
  /\ probe.done
  /\ probe.input = <<PhoneLow, PhoneHigh>>
  /\ probe.low = <<PhoneHigh>>

\* C17: applyNMS applied to its own output with the same thresholds returns
\* the same set of predictions
C17_Idempotent ==
  probe.fn = "nms" /\ probe.done
    => {probe.again[k] : k \in 1..Len(probe.again)}
         = {probe.low[k] : k \in 1..Len(probe.low)}

\* a list of which applyNMS suppresses all but one prediction, which the
\* second application keeps
C17_Witness ==
  /\ probe.fn = "nms"
  /\ probe.done
  /\ Len(probe.input) >= 2
  /\ Len(probe.low) = 1
  /\ probe.again = probe.low


(***************************************************************************)
(* applyTemporalSmoothing on its own                                       *)
(***************************************************************************)
MaxPriorEntries == 2

\* what applyNMS may hand to the smoother: persons on one spot (one of them
\* with IoU exactly 0.5 to the first), a laptop in the box of the first
\* person, phones with IoU 0.49 and exactly 0.4 to the first phone
SmoothScenes ==
  {<<>>,
   <<Pred("person", Frac(9, 10), Box(0, 0, 30, 40))>>,
   <<Pred("person", Frac(95, 100), Box(5, 0, 30, 40))>>,
   <<Pred("person", Frac(7, 10), Box(10, 0, 30, 40)),
     Pred("laptop", Frac(95, 100), Box(0, 0, 30, 40))>>,
   <<Pred("person", Frac(9, 10), Box(0, 0, 30, 40)),
     Pred("cell phone", Frac(6, 10), Box(100, 0, 35, 40))>>,
   <<Pred("cell phone", Frac(7, 10), Box(112, 0, 35, 40)),
     Pred("person", Frac(95, 100), Box(5, 0, 30, 40))>>,
   <<Pred("cell phone", Frac(6, 10), Box(100, 0, 35, 40)),
     Pred("laptop", Frac(95, 100), Box(0, 0, 30, 40))>>,
   <<Pred("person", Frac(5, 10), Box(2, 0, 30, 40))>>,
   <<Pred("cell phone", Frac(8, 10), Box(115, 0, 35, 40))>>}

\* Date.now() when the smoother runs
SmoothTime == Epoch + historyWindow + RateLimitMs

\* how long before that the earlier passes ran: inside or outside the window
SmoothAges == {RateLimitMs, historyWindow + RateLimitMs}

\* rolling histories of up to MaxPriorEntries earlier passes, oldest first
SmoothHistories ==
  UNION {{[k \in 1..n |-> [timestamp |-> SmoothTime - age[k],
                           predictions |-> scene[k]]] :
            scene \in [1..n -> SmoothScenes],
            age \in {a \in [1..n -> SmoothAges] :
                       \A k \in 1..(n - 1) : a[k] >= a[k + 1]}} :
         n \in 0..MaxPriorEntries}

\* the device history that belongs to a rolling history
RECURSIVE mobileEntriesOf(_)
mobileEntriesOf(history) ==
  IF Len(history) = 0 THEN <<>>
  ELSE LET entry == history[Len(history)]
           mobilePreds == SelectSeq(entry.predictions, IsMobile)
       IN  mobileEntriesOf(SubSeq(history, 1, Len(history) - 1))
             \o [k \in 1..Len(mobilePreds) |->
                   [timestamp |-> entry.timestamp,
                    bbox |-> mobilePreds[k].bbox,
                    confidence |-> mobilePreds[k].score]]

InitSmooth ==
  /\ Constructed
  /\ webcam = Mounted
  /\ probe \in {[fn |-> "smooth", t |-> SmoothTime, history |-> h,
                  mobileHistory |-> mobileEntriesOf(h), current |-> c,
                  done |-> FALSE,
                  out |-> [detectionHistory |-> <<>>, mobileHistory |-> <<>>,
                           result |-> <<>>]] :
                 h \in SmoothHistories, c \in SmoothScenes}

\* applyTemporalSmoothing on the current predictions and the two histories
ApplySmooth ==
  /\ probe.fn = "smooth"
  /\ ~probe.done
  /\ probe' = [probe EXCEPT
                 !.done = TRUE,
                 !.out = applyTemporalSmoothing(probe.current, probe.t,
                                                probe.history,
                                                probe.mobileHistory)]
  /\ UNCHANGED <<hook, webcam>>

NextSmooth == ApplySmooth

SpecSmooth == InitSmooth /\ [][NextSmooth]_vars

\* history prediction q matches the current prediction p: same class and an
\* IoU above 0.4 for the device class, above 0.5 for any other
Matches(q, p) ==
  /\ q.class = p.class
  /\ NumGt(calculateIoU(q.bbox, p.bbox),
           IF p.class = "cell phone" THEN Frac(4, 10) ELSE Frac(5, 10))

\* the history the smoother works on: the earlier entries not older than
\* 600 ms and the entry of the current frame
PrunedHistory ==
  LET all == Append(probe.history,
                    [timestamp |-> probe.t, predictions |-> probe.current])
  IN  SelectSeq(all, LAMBDA e : probe.t - e.timestamp <= 600)

\* the places <<entry, position>> of the pruned history that match p
MatchedPlaces(p) ==
  UNION {{<<e, k>> : k \in {j \in 1..Len(PrunedHistory[e].predictions) :
                               Matches(PrunedHistory[e].predictions[j], p)}} :
         e \in 1..Len(PrunedHistory)}

\* component c of the prediction at a place: 0 is the confidence, 1..4 the box
PlaceValue(ix, c) ==
  LET q == PrunedHistory[ix[1]].predictions[ix[2]]
  IN  IF c = 0 THEN q.score ELSE q.bbox[c]

RECURSIVE PlaceTotal(_, _)
PlaceTotal(places, c) ==
  IF places = {} THEN Num(0)
  ELSE LET ix == CHOOSE x \in places : TRUE
       IN  NumAdd(PlaceValue(ix, c), PlaceTotal(places \ {ix}, c))

PlaceMean(places, c) ==
  NumDiv(PlaceTotal(places, c), Num(Cardinality(places)))

\* C18: the smoother returns a prediction unchanged when the pruned history
\* has fewer than 2 entries or fewer than 2 of its predictions (current
\* frame included) match it; otherwise the class stays, the confidence is
\* min(1, mean matched confidence x 1.15 for a device, x 1.10 otherwise) and
\* the box is the component-wise mean of the matched boxes
C18_UnchangedOrFused ==
  probe.fn = "smooth" /\ probe.done
    => /\ Len(probe.out.result) = Len(probe.current)
       /\ \A k \in 1..Len(probe.current) :
            LET p == probe.current[k]
                r == probe.out.result[k]
                places == MatchedPlaces(p)
                boost == IF p.class = "cell phone"
                         THEN Frac(115, 100) ELSE Frac(110, 100)
            IN  IF Len(PrunedHistory) < 2 \/ Cardinality(places) < 2
                THEN r = p
                ELSE /\ r.class = p.class
                     /\ r.score = NumMin(Num(1),
                                         NumMul(PlaceMean(places, 0), boost))
                     /\ r.bbox = [c \in 1..4 |-> PlaceMean(places, c)]

\* a device fused with an earlier sighting to a confidence below 1, next to
\* a person that an entry outside the window leaves unchanged
C18_Witness ==
  /\ probe.fn = "smooth"
  /\ probe.done
  /\ Len(probe.history) = 2
  /\ Len(probe.out.detectionHistory) = 2
  /\ \E k \in 1..Len(probe.current) :
       /\ probe.current[k].class = "cell phone"
       /\ probe.out.result[k] # probe.current[k]
       /\ NumLt(probe.out.result[k].score, Num(1))
  /\ \E k \in 1..Len(probe.current) :
       /\ probe.current[k].class = "person"
       /\ probe.out.result[k] = probe.current[k]
       /\ Cardinality(MatchedPlaces(probe.current[k])) = 1

\* the history without the predictions that do not match p
WithoutNonMatching(history, p) ==
  [e \in 1..Len(history) |->
     [timestamp |-> history[e].timestamp,
      predictions |->
        SelectSeq(history[e].predictions, LAMBDA q : Matches(q, p))]]

\* C19: only history predictions of the class of the current prediction with
\* an IoU above the threshold of the class contribute to what is returned
\* for it: taking every other prediction out of the history changes nothing
C19_OnlyMatchesContribute ==
  probe.fn = "smooth" /\ probe.done /\ Len(PrunedHistory) >= 2
    => \A k \in 1..Len(probe.current) :
         probe.out.result[k]
           = smoothOne(probe.current[k],
                       WithoutNonMatching(PrunedHistory, probe.current[k]))

\* a fused person whose history holds a laptop in the very same box and a
\* person with an IoU of exactly 0.5
C19_Witness ==
  /\ probe.fn = "smooth"
  /\ probe.done
  /\ \E k \in 1..Len(probe.current) :
       LET p == probe.current[k]
           others == flatPredictions(PrunedHistory)
       IN  /\ probe.out.result[k] # p
           /\ \E j \in 1..Len(others) :
                /\ others[j].class # p.class
                /\ calculateIoU(others[j].bbox, p.bbox) = Num(1)
           /\ \E j \in 1..Len(others) :
                /\ others[j].class = p.class
                /\ calculateIoU(others[j].bbox, p.bbox) = Frac(5, 10)


\* C20: the timestamps of the rolling history lie within 600 ms of each
\* other, and so do those of the device history; when a pass has run the
\* smoother, no entry of either history is more than 600 ms older than the
\* timestamp of that pass
C20_HistoriesWithinWindow ==
  /\ \A i, j \in 1..Len(detectionHistoryRef) :
       detectionHistoryRef[j].timestamp - detectionHistoryRef[i].timestamp
         <= 600
  /\ \A i, j \in 1..Len(mobileDetectionHistory) :
       mobileDetectionHistory[j].timestamp
         - mobileDetectionHistory[i].timestamp <= 600
  /\ returned.outcome = "ok"
       => /\ \A i \in 1..Len(detectionHistoryRef) :
               now - detectionHistoryRef[i].timestamp \in 0..600
          /\ \A i \in 1..Len(mobileDetectionHistory) :
               now - mobileDetectionHistory[i].timestamp \in 0..600

\* the eighth pass in a row has purged the entry of the first from both
\* histories and kept the entries that are exactly 600 ms old
C20_Witness ==
  /\ returned.outcome = "ok"
  /\ admitted.count >= 8
  /\ Len(detectionHistoryRef) = 7
  /\ now - detectionHistoryRef[1].timestamp = 600
  /\ Len(mobileDetectionHistory) = 7
  /\ now - mobileDetectionHistory[1].timestamp = 600


(***************************************************************************)
(* The end of a pass on its own: events, scores and result for the         *)
(* smoothed predictions and the size of the element given to the detector  *)
(***************************************************************************)
MaxScoreLen == 3

\* smoothed predictions: three persons (the first one centred in a frame
\* 200 wide), two phones, classes of each kind the scores know and a class
\* that no table lists
ScorePool ==
  {Pred("person", Frac(9, 10), Box(60, 20, 80, 110)),
   Pred("person", Frac(6, 10), Box(10, 10, 50, 80)),
   Pred("person", Frac(75, 100), Box(150, 30, 40, 90)),
   Pred("cell phone", Frac(8, 10), Box(30, 60, 20, 40)),
   Pred("cell phone", Num(1), Box(120, 60, 20, 40)),
   Pred("laptop", Frac(7, 10), Box(100, 80, 60, 40)),
   Pred("keyboard", Frac(6, 10), Box(90, 120, 70, 20)),
   Pred("book", Frac(45, 100), Box(150, 100, 30, 20)),
   Pred("tv", Frac(65, 100), Box(0, 0, 90, 60)),
   Pred("chair", Frac(55, 100), Box(20, 70, 60, 80))}

ScoreInputs ==
  UNION {{l \in [1..n -> ScorePool] :
            \A i, j \in 1..n : i # j => l[i] # l[j]} : n \in 0..MaxScoreLen}

\* width and height of inputElement: the canvas of a 200x150 frame, or the
\* video element itself, whose width and height attributes no caller sets
ScoreSizes == {<<200, 150>>, <<0, 0>>}

InitScore ==
  /\ Constructed
  /\ webcam = Mounted
  /\ probe \in {[fn |-> "score", predictions |-> l, width |-> size[1],
                  height |-> size[2], done |-> FALSE, events |-> <<>>,
                  log |-> <<>>, raw |-> fullScores, metrics |-> fullMetrics,
                  result |-> NoResult] :
                 l \in ScoreInputs, size \in ScoreSizes}

\* detectObjects from newDetections to its return value
ApplyScore ==
  /\ probe.fn = "score"
  /\ ~probe.done
  /\ LET newDetections == newDetectionsOf(probe.predictions, now)
     IN  probe' = [probe EXCEPT
                     !.done = TRUE,
                     !.events = newDetections,
                     !.log = updateDetections(<<>>, newDetections),
                     !.raw = rawScores(probe.predictions, Num(probe.width),
                                       Num(probe.height)),
                     !.metrics = newFocusMetricsOf(probe.predictions,
                                                   Num(probe.width),
                                                   Num(probe.height)),
                     !.result = pipelineResult(probe.predictions,
                                               newDetections)]
  /\ UNCHANGED <<hook, webcam>>

NextScore == ApplyScore

SpecScore == InitScore /\ [][NextScore]_vars

\* the type the fixed rule gives a class
ExpectedType(class) ==
  IF class = "cell phone" THEN "mobile"
  ELSE IF class = "person" THEN "person"
  ELSE "unknown_object"

\* C21: every smoothed prediction yields exactly one event, in order, of
\* type mobile for the device class, person for a person and unknown_object
\* for any other class; no event of type focus_lost or multiple_people is
\* made or put in the log, with no person or with several
C21_OneEventPerPrediction ==
  probe.fn = "score" /\ probe.done
    => /\ Len(probe.events) = Len(probe.predictions)
       /\ \A k \in 1..Len(probe.predictions) :
            /\ probe.events[k].type = ExpectedType(probe.predictions[k].class)
            /\ probe.events[k].confidence = probe.predictions[k].score
            /\ probe.events[k].bbox = probe.predictions[k].bbox
       /\ probe.log = probe.events
       /\ \A k \in 1..Len(probe.log) :
            probe.log[k].type \notin {"focus_lost", "multiple_people"}

\* two persons and a chair: events person, person, unknown_object
C21_Witness ==
  /\ probe.fn = "score"
  /\ probe.done
  /\ Len(probe.events) = 3
  /\ Cardinality({k \in 1..3 : probe.events[k].type = "person"}) = 2
  /\ \E k \in 1..3 :
       /\ probe.predictions[k].class = "chair"
       /\ probe.events[k].type = "unknown_object"


\* the number of persons among the predictions of the pass
PersonCount ==
  Cardinality({k \in 1..Len(probe.predictions) :
                 probe.predictions[k].class = "person"})

DevicePresent ==
  \E k \in 1..Len(probe.predictions) :
    probe.predictions[k].class = "cell phone"

RECURSIVE PenaltyUpTo(_, _, _, _, _)
PenaltyUpTo(n, classes, weight, factor, cap) ==
  IF n = 0 THEN Num(0)
  ELSE LET p == probe.predictions[n]
           before == PenaltyUpTo(n - 1, classes, weight, factor, cap)
       IN  IF p.class \in classes
           THEN NumAdd(before,
                       NumMul(weight, NumMin(cap, NumMul(factor, p.score))))
           ELSE before

\* focusScore as the rule gives it
ExpectedFocus ==
  LET n == Len(probe.predictions)
      persons == {k \in 1..n : probe.predictions[k].class = "person"}
      devices == PenaltyUpTo(n, {"cell phone"}, Num(35), Frac(15, 10),
                             Frac(15, 10))
      computers == PenaltyUpTo(n, {"laptop", "tablet", "keyboard", "mouse",
                                   "monitor"}, Num(15), Num(1), Num(1))
      distracting == PenaltyUpTo(n, {"bottle", "cup", "book", "remote", "tv"},
                                 Num(8), Num(1), Num(1))
      bonus == IF /\ Cardinality(persons) = 1
                  /\ \E k \in persons :
                       NumGt(probe.predictions[k].score, Frac(7, 10))
               THEN Num(5) ELSE Num(0)
      sum == NumAdd(NumSub(NumSub(NumSub(Num(80), devices), computers),
                           distracting), bonus)
  IN  IF NumLt(sum, Num(0)) THEN Num(0)
      ELSE IF NumGt(sum, Num(100)) THEN Num(100) ELSE sum

\* one centred person of confidence 0.9 and nothing else
CentredPersonAlone ==
  <<Pred("person", Frac(9, 10), Box(60, 20, 80, 110))>>

EventCount(type) ==
  Cardinality({k \in 1..Len(probe.result.newDetections) :
                 probe.result.newDetections[k].type = type})

\* C29: in a result that is not null mobileCount is the number of new
\* events of type mobile and personCount the number of new events of type
\* person
C29_CountsMatchEvents ==
  probe.fn = "score" /\ probe.done
    => /\ probe.result.newDetections = probe.events
       /\ probe.result.mobileCount = EventCount("mobile")
       /\ probe.result.personCount = EventCount("person")

\* a phone, a person and a tv: one mobile event, one person event
C29_Witness ==
  /\ probe.fn = "score"
  /\ probe.done
  /\ \E k \in 1..Len(probe.predictions) : probe.predictions[k].class = "tv"
  /\ probe.result.mobileCount = 1
  /\ probe.result.personCount = 1
  /\ EventCount("unknown_object") = 1


(***************************************************************************)
(* calculateIoU on its own                                                 *)
(***************************************************************************)
\* boxes (x, y, width, height) on a small grid, those without width or
\* height among them
IoUBoxes ==
  {<<x, y, w, h>> : x \in {0, 5, 10}, y \in {0, 5}, w \in {0, 5, 10},
                    h \in {0, 10}}

NumBox(b) == Box(b[1], b[2], b[3], b[4])

InitIoU ==
  /\ Constructed
  /\ webcam = Mounted
  /\ probe \in {[fn |-> "iou", a |-> a, b |-> b, done |-> FALSE,
                  ab |-> Num(0), ba |-> Num(0), aa |-> Num(0)] :
                 a \in IoUBoxes, b \in IoUBoxes}

\* calculateIoU on the two boxes in either order, and on the first with
\* itself
ApplyIoU ==
  /\ probe.fn = "iou"
  /\ ~probe.done
  /\ probe' = [probe EXCEPT
                 !.done = TRUE,
                 !.ab = calculateIoU(NumBox(probe.a), NumBox(probe.b)),
                 !.ba = calculateIoU(NumBox(probe.b), NumBox(probe.a)),
                 !.aa = calculateIoU(NumBox(probe.a), NumBox(probe.a))]
  /\ UNCHANGED <<hook, webcam>>

NextIoU == ApplyIoU

SpecIoU == InitIoU /\ [][NextIoU]_vars

\* the two boxes share no area
NoOverlap(a, b) ==
  LET left == IF a[1] > b[1] THEN a[1] ELSE b[1]
      right == IF a[1] + a[3] < b[1] + b[3] THEN a[1] + a[3] ELSE b[1] + b[3]
      top == IF a[2] > b[2] THEN a[2] ELSE b[2]
      bottom == IF a[2] + a[4] < b[2] + b[4] THEN a[2] + a[4] ELSE b[2] + b[4]
  IN  right - left <= 0 \/ bottom - top <= 0

\* symmetric, within [0, 1], and 0 for boxes that share no area
IoUBasicLaws ==
  /\ probe.ab = probe.ba
  /\ NumGe(probe.ab, Num(0))
  /\ NumLe(probe.ab, Num(1))
  /\ NoOverlap(probe.a, probe.b) => probe.ab = Num(0)

C25_ClearFrame ==
  [][/\ ClearDetections
          => /\ detections' = <<>>
             /\ detectionHistoryRef' = <<>>
             /\ mobileDetectionHistory' = <<>>
             /\ focusMetrics' = [focusScore |-> Num(100),
                                 eyeContactScore |-> Num(100),
                                 headPoseScore |-> Num(100),
                                 overallAttention |-> Num(100)]
             /\ UNCHANGED <<modelRef, isModelLoaded, isDetecting,
                            lastDetectionTimeRef>>
     /\ detections = <<>> /\ detections' # <<>>
          => /\ calls # {}
             /\ calls' # calls
             /\ returned'.outcome = "ok"]_vars

\* every pass so far has completed and filled log and histories, and a clear
\* has emptied them; the flag, the model and the timestamp are as they were
C25_Witness ==
  /\ admitted.count >= 1
  /\ calls = {}
  /\ ~isDetecting
  /\ isModelLoaded
  /\ lastDetectionTimeRef = now
  /\ detections = <<>>
  /\ detectionHistoryRef = <<>>
  /\ mobileDetectionHistory = <<>>
  /\ focusMetrics = fullMetrics


\* C26: a step that admits an invocation sets the rate-limit timestamp to the
\* time of that step, no other step writes the timestamp (so the way the
\* invocation ends does not move it), and no invocation is admitted less than
\* 100 ms after the start of the last admitted one, however that one ended
C26_StartThrottlesWhateverTheEnd ==
  [][/\ admitted' # admitted => lastDetectionTimeRef' = now
     /\ lastDetectionTimeRef' # lastDetectionTimeRef => admitted' # admitted
     /\ (/\ admitted.count >= 1
         /\ now - admitted.starts[Len(admitted.starts)] < RateLimitMs)
          => /\ admitted' = admitted
             /\ calls' \subseteq calls
             /\ returned'.outcome \notin {"skipped", "preprocess_error"}]_vars

\* the detector call of the last admitted invocation failed (its canvas is
\* still held), and an invocation submitted less than 100 ms after that
\* invocation started has been rejected
C26_Witness ==
  /\ admitted.count \in canvases
  /\ calls = {}
  /\ ~isDetecting
  /\ modelRef
  /\ returned.outcome = "rejected"
  /\ now - lastDetectionTimeRef < RateLimitMs


\* what the suppressor hands to the smoothing in every pass of this caller
LogSuppressed == applyNMS(filterPredictions(LogOutput), Frac(3, 10))

\* prediction p is no more confident than the boost allows, given a
\* prediction q of its class
WithinBoostOf(p, q) ==
  /\ q.class = p.class
  /\ NumLe(p.score,
           NumMin(Num(1), NumMul(confidenceBoost(p.class), q.score)))

\* C27: every entry of the rolling history holds the suppressor's output of
\* its pass, never the smoothed output, and every confidence a pass returns
\* is at most min(1, boost * the largest unsmoothed confidence of its class
\* in the rolling history), the boost being 1.15 for cell phones and 1.10
\* for every other class
C27_BoostsDoNotCompound ==
  /\ \A k \in 1..Len(detectionHistoryRef) :
       detectionHistoryRef[k].predictions = LogSuppressed
  /\ returned.outcome = "ok"
       => \A k \in 1..Len(returned.result.predictions) :
            LET p == returned.result.predictions[k]
                stored == flatPredictions(detectionHistoryRef)
            IN  /\ \E j \in 1..Len(stored) : WithinBoostOf(p, stored[j])
                /\ \E j \in 1..Len(LogSuppressed) :
                     WithinBoostOf(p, LogSuppressed[j])

\* a pass whose window holds three passes or more has returned a cell phone
\* of confidence 0.8 * 1.15 and a person of confidence 0.9 * 1.1
C27_Witness ==
  /\ returned.outcome = "ok"
  /\ Len(detectionHistoryRef) >= 3
  /\ \E k \in 1..Len(returned.result.predictions) :
       /\ returned.result.predictions[k].class = "cell phone"
       /\ returned.result.predictions[k].score = Frac(92, 100)
  /\ \E k \in 1..Len(returned.result.predictions) :
       /\ returned.result.predictions[k].class = "person"
       /\ returned.result.predictions[k].score = Frac(99, 100)


(***************************************************************************)
(* A caller that submits a decodable frame at any time to a detector that   *)
(* may answer at once or late: the runs that pack the rolling history.      *)
(***************************************************************************)
MaxWindowTicks == 8

WindowOutput == <<Pred("person", Frac(9, 10), Box(60, 20, 80, 110))>>

TickWindow ==
  /\ now < Epoch + MaxWindowTicks * RateLimitMs
  /\ Tick(RateLimitMs)

NextWindow ==
  \/ TryBackend(TRUE)
  \/ Invoke(LogFrame)
  \/ \E call \in calls : DetectResolves(call, WindowOutput)
  \/ TickWindow

SpecWindow == Init /\ [][NextWindow]_vars

\* C28: the rolling history never holds more than 8 entries
C28_AtMostEightEntries == Len(detectionHistoryRef) <= 8

\* the rolling history holds 8 entries: the oldest one was written by a pass
\* that ended when the next one started, 600 ms before the newest one
C28_Witness ==
  /\ Len(detectionHistoryRef) = 8
  /\ detectionHistoryRef[8].timestamp - detectionHistoryRef[1].timestamp
       = historyWindow


(***************************************************************************)
(* WebcamPlayer: the isActive prop, the two refs, the camera requests that  *)
(* have not settled, the streams whose tracks run, the loadeddata handlers  *)
(* on the <video> and the play() promises that have not settled.            *)
(***************************************************************************)
MaxRequests == 3

\* stopWebcam
stopWebcam(w) ==
  [w EXCEPT !.live = IF w.streamRef # 0 THEN w.live \ {w.streamRef} ELSE w.live,
            !.streamRef = 0,
            !.srcObject = 0,
            !.isInitializing = FALSE]

\* startWebcam up to its first await, in the render whose isActive is active
startWebcam(w, active) ==
  IF w.isInitializing \/ w.streamRef # 0 THEN w
  ELSE [w EXCEPT !.isInitializing = TRUE,
                 !.requests = w.requests \cup
                                {[id |-> w.started + 1, isActive |-> active]},
                 !.started = w.started + 1]

\* the cleanup of the isActive effect
effectCleanup(w) == IF w.streamRef # 0 THEN stopWebcam(w) ELSE w

\* the body of the isActive effect
effectBody(w) ==
  IF w.isActive /\ w.streamRef = 0 /\ ~w.isInitializing
  THEN startWebcam(w, w.isActive)
  ELSE IF ~w.isActive /\ w.streamRef # 0 THEN stopWebcam(w)
  ELSE w

\* the parent renders the player with another isActive: the cleanup of the
\* last effect runs, then the effect
SetIsActive(active) ==
  /\ active # webcam.isActive
  /\ webcam.started < MaxRequests
  /\ webcam' = effectBody([effectCleanup(webcam) EXCEPT !.isActive = active])
  /\ UNCHANGED <<hook, probe>>

\* getUserMedia resolves with a stream: startWebcam goes on to await play()
GetUserMediaResolves(request) ==
  /\ request \in webcam.requests
  /\ webcam' =
       IF ~request.isActive
       THEN [webcam EXCEPT !.requests = webcam.requests \ {request},
                           !.isInitializing = FALSE]
       ELSE [webcam EXCEPT !.requests = webcam.requests \ {request},
                           !.live = webcam.live \cup {request.id},
                           !.streamRef = request.id,
                           !.srcObject = request.id,
                           !.listeners = webcam.listeners \cup {request.id},
                           !.plays = webcam.plays \cup {request.id}]
  /\ UNCHANGED <<hook, probe>>

\* getUserMedia rejects: the catch block
GetUserMediaRejects(request) ==
  /\ request \in webcam.requests
  /\ webcam' = [webcam EXCEPT !.requests = webcam.requests \ {request},
                              !.isInitializing = FALSE]
  /\ UNCHANGED <<hook, probe>>

\* the <video> fires loadeddata for the stream it shows: every handler that
\* is still attached runs and removes itself
LoadedData ==
  /\ webcam.srcObject # 0
  /\ webcam.listeners # {}
  /\ webcam' = [webcam EXCEPT !.listeners = {}, !.isInitializing = FALSE]
  /\ UNCHANGED <<hook, probe>>

\* play() resolves: nothing follows it in startWebcam
PlayResolves(stream) ==
  /\ stream \in webcam.plays
  /\ webcam.srcObject = stream
  /\ webcam' = [webcam EXCEPT !.plays = webcam.plays \ {stream}]
  /\ UNCHANGED <<hook, probe>>

\* play() rejects because stopWebcam or a later stream took the <video>
\* away from its stream: the catch block
PlayRejects(stream) ==
  /\ stream \in webcam.plays
  /\ webcam.srcObject # stream
  /\ webcam' = [webcam EXCEPT !.plays = webcam.plays \ {stream},
                              !.isInitializing = FALSE]
  /\ UNCHANGED <<hook, probe>>

NextWebcam ==
  \/ \E active \in BOOLEAN : SetIsActive(active)
  \/ \E request \in webcam.requests : GetUserMediaResolves(request)
  \/ \E request \in webcam.requests : GetUserMediaRejects(request)
  \/ LoadedData
  \/ \E stream \in webcam.plays : PlayResolves(stream)
  \/ \E stream \in webcam.plays : PlayRejects(stream)

SpecWebcam == Init /\ [][NextWebcam]_vars

\* an inactive player without a pending camera request holds no stream
C30_ReleasedWhenIdle ==
  (~webcam.isActive /\ webcam.requests = {})
    => webcam.streamRef = 0 /\ webcam.live = {}

\* at most one camera request is pending
C30_OneRequest == Cardinality(webcam.requests) <= 1

\* C30: whenever the player is inactive and no camera request is pending, no
\* stream is held and every acquired stream has had its tracks stopped; and at
\* most one camera request is pending at any time
C30_IdlePlayerHoldsNoCamera == C30_ReleasedWhenIdle /\ C30_OneRequest

=============================================================================
